---------------------------- MODULE Spec2Model ----------------------------
(***************************************************************************)
(* A model of api_service/api/service.py: the Correlation Store            *)
(* (QueryStorage), the query streaming pipeline (rag_query,                *)
(* process_streaming_response, process_url_extraction, get_urls), the      *)
(* website-reference normalization of the sitemap and scrape endpoints,    *)
(* and the scrape-and-ingest run (scrape_sitemap.scraping_process).        *)
(***************************************************************************)
EXTENDS Integers, Sequences, FiniteSets, TLC

(***************************************************************************)
(* Bounds of the model.                                                    *)
(***************************************************************************)
\* longest URL list handed to store_query by a direct caller
MaxUrls == 2
\* number of store_query / retrieve_query calls started in one behaviour
MaxOps == 3

\* tokens produced by the response generators of one behaviour, all queries together
MaxTokens == 2
\* longest list of source URLs extracted from one retrieval result
MaxDocs == 2
\* longest list of source URLs of a retrieval result fixed beforehand
MaxSources == 3

\* query identifiers and source URLs
QueryIds == {"id1", "id2"}
Urls == {"u1", "u2"}
\* the callers of the Correlation Store running concurrently
Tasks == {"t1", "t2"}
\* the query requests and the URL-lookup requests in flight
Queries == {"qA", "qB"}
Lookups == {"l1"}
\* text segments of a response generator; "" is the empty segment
Tokens == {"", "a", "b"}
\* a request field: absent from the JSON body, empty, or given
FieldValues == {"missing", "", "x"}
Requests == [website : FieldValues, timestamp : FieldValues, query : FieldValues]

\* most slashes at the end of a website reference
MaxSlashes == 2

\* most page links in a resolved sitemap
MaxPages == 3
\* most progress updates of one ingestion
MaxUpdates == 2

SeqsUpTo(S, n) == UNION {[1..k -> S] : k \in 0..n}

VARIABLES
    storage,    \* QueryStorage._storage: query_id -> list of URLs
    lock,       \* QueryStorage._lock: its holder, or NoHolder
    tpc,        \* per direct caller: "idle", "waiting" (for the lock), "locked"
    top,        \* per direct caller: the call in progress
    opLog,      \* the completed store calls, in completion order
    qpc,        \* per query request: where its handling stands
    qreq,       \* per query request: the JSON body received
    qresp,      \* per query request: status and detail of the HTTP response
    qid,        \* per query request: query_id, or "none"
    produced,   \* per query: the segments response_gen has produced
    forwarded,  \* per query: the segments yielded to the caller
    gen,        \* per query: state of the process_streaming_response generator
    source_urls, \* per query: the source URLs of the documents behind its
                \* retrieval result, where they are fixed beforehand
    unique,     \* per query: unique_urls of process_url_extraction
    minted,     \* the identifiers uuid4 has returned
    gateway,    \* the queries for which helper.query_weaviate was called
    scheduled,  \* the queries whose extraction task was added to background_tasks
    lpc,        \* per lookup: where get_urls stands
    lid,        \* per lookup: the query_id path parameter
    lresp,      \* per lookup: the response of get_urls
    lcase,      \* per lookup: what the store held for lid when it was read
    website,    \* the website reference received, a string of characters
    sitemapUrl, \* `sitemap` as normalized by the sitemap endpoint, <<>> before
    scrapeUrl,  \* `sitemap` as normalized by the scrape endpoint, <<>> before
    attribute_dict, \* what helper.get_sitemap_attributes returned to sitemap()
    response_dict,  \* the response of the sitemap endpoint, by key
    pages,      \* attribute_dict['df']: the page links of the sitemap, in order
    spc,        \* the yield at which scraping_process is suspended
    i,          \* the page counter of scraping_process
    text_dict,  \* text_dict: the (key, text) items in insertion order
    df,         \* the rows of the DataFrame built from text_dict
    out,        \* the lines scraping_process has yielded
    calls       \* the calls made to the helpers, with what they returned

storeVars == <<storage, lock>>
taskVars == <<tpc, top, opLog>>
queryVars == <<qpc, qreq, qresp, qid, produced, forwarded, gen, source_urls, unique,
               minted, gateway, scheduled>>
lookupVars == <<lpc, lid, lresp, lcase>>
normVars == <<website, sitemapUrl, scrapeUrl, attribute_dict, response_dict>>
scrapeVars == <<pages, spc, i, text_dict, df, out, calls>>
vars == <<storage, lock, tpc, top, opLog,
          qpc, qreq, qresp, qid, produced, forwarded, gen, source_urls, unique,
          minted, gateway, scheduled, lpc, lid, lresp, lcase,
          website, sitemapUrl, scrapeUrl, attribute_dict, response_dict,
          pages, spc, i, text_dict, df, out, calls>>

NoHolder == <<"none", "none">>
NoOp == [kind |-> "none", id |-> "none", urls |-> <<>>]
NoSources == [q \in Queries |-> <<>>]
EmptyStorage == [k \in {} |-> <<>>]

(***************************************************************************)
(* QueryStorage: the bodies of store_query and retrieve_query, executed    *)
(* while the lock is held.                                                 *)
(***************************************************************************)
\* self._storage[query_id] = urls
store_query(st, query_id, urls) ==
    [k \in DOMAIN st \cup {query_id} |-> IF k = query_id THEN urls ELSE st[k]]

\* self._storage.pop(query_id, []): the value returned
retrieve_query(st, query_id) ==
    IF query_id \in DOMAIN st THEN st[query_id] ELSE <<>>

\* a read that leaves the entry in place (get instead of pop)
storage_keep(st, query_id) == st

\* a read that empties the whole storage (clear instead of pop)
storage_clear(st, query_id) == EmptyStorage

\* self._storage.pop(query_id, []): the storage left behind
storage_pop(st, query_id) ==
    [k \in DOMAIN st \ {query_id} |-> st[k]]

\* a lock that lets a second holder in
lock_barge(holder) == lock' = holder

\* async with self._lock: entered only when no one holds the lock
lock_acquire(holder) ==
    /\ lock = NoHolder
    /\ lock' = holder

(***************************************************************************)
(* Direct callers of the store (StoreSpec): any task may call store_query  *)
(* with any identifier and URL list, or retrieve_query with any            *)
(* identifier.                                                             *)
(***************************************************************************)
StoreCalls ==
    [kind : {"store"}, id : QueryIds, urls : SeqsUpTo(Urls, MaxUrls)]
        \cup [kind : {"retrieve"}, id : QueryIds, urls : {<<>>}]

Started == Len(opLog) + Cardinality({t \in Tasks : tpc[t] # "idle"})

\* a task calls store_query or retrieve_query and reaches `async with`
TaskCall(t) ==
    /\ tpc[t] = "idle"
    /\ Started < MaxOps
    /\ \E op \in StoreCalls : top' = [top EXCEPT ![t] = op]
    /\ tpc' = [tpc EXCEPT ![t] = "waiting"]
    /\ UNCHANGED <<storage, lock, opLog, queryVars, lookupVars, normVars, scrapeVars>>

TaskAcquire(t) ==
    /\ tpc[t] = "waiting"
    /\ lock_acquire(<<"task", t>>)
    /\ tpc' = [tpc EXCEPT ![t] = "locked"]
    /\ UNCHANGED <<storage, top, opLog, queryVars, lookupVars, normVars, scrapeVars>>

TaskStore(t) ==
    /\ tpc[t] = "locked"
    /\ lock = <<"task", t>>
    /\ top[t].kind = "store"
    /\ storage' = store_query(storage, top[t].id, top[t].urls)
    /\ lock' = NoHolder
    /\ opLog' = Append(opLog, top[t])
    /\ tpc' = [tpc EXCEPT ![t] = "idle"]
    /\ top' = [top EXCEPT ![t] = NoOp]
    /\ UNCHANGED <<queryVars, lookupVars, normVars, scrapeVars>>

TaskRetrieve(t) ==
    /\ tpc[t] = "locked"
    /\ lock = <<"task", t>>
    /\ top[t].kind = "retrieve"
    /\ storage' = storage_pop(storage, top[t].id)
    /\ lock' = NoHolder
    /\ opLog' = Append(opLog, [top[t] EXCEPT !.urls = retrieve_query(storage, top[t].id)])
    /\ tpc' = [tpc EXCEPT ![t] = "idle"]
    /\ top' = [top EXCEPT ![t] = NoOp]
    /\ UNCHANGED <<queryVars, lookupVars, normVars, scrapeVars>>

(***************************************************************************)
(* The query streaming pipeline.                                           *)
(***************************************************************************)
NoResponse == [status |-> 0, detail |-> "none"]
\* Python's None, as a value comparable with a list of URLs
None == <<"None">>

\* a presence test that lets an empty value through (`key not in data`)
absent(data, key) == data[key] = "missing"

\* `not data.get(key)`: the key is absent or its value is the empty string
falsy(data, key) == data[key] \in {"missing", ""}

\* one `for key in keys` loop of check_required: the key of the first
\* HTTPException raised, "none" when the loop ends without raising
RECURSIVE first_missing(_, _)
first_missing(data, keys) ==
    IF keys = <<>> THEN "none"
    ELSE IF falsy(data, Head(keys)) THEN Head(keys)
    ELSE first_missing(data, Tail(keys))

\* check_required: the first loop, then the same loop once more
check_required(data, keys) ==
    LET first == first_missing(data, keys)
    IN  IF first # "none" THEN first ELSE first_missing(data, keys)

RequiredKeys == <<"website", "timestamp", "query">>

\* an identifier source that may repeat itself
uuid4_repeating(used) == QueryIds

\* uuid.uuid4(): the values it may return, given those it returned before;
\* a UUID is never returned twice
uuid4(used) == QueryIds \ used

\* the loop body without its `if text` test
yield_every_text(yielded, text) == Append(yielded, text)

\* the body of the loop of process_streaming_response: what has been
\* yielded to the caller after response_gen produced `text`
process_streaming_response(yielded, text) ==
    IF text # "" THEN Append(yielded, text) ELSE yielded

\* a loop that appends every URL, seen before or not
all_urls(extracted_urls, acc) == acc \o extracted_urls

\* the loop of process_url_extraction over extracted_urls
RECURSIVE unique_urls(_, _)
unique_urls(extracted_urls, acc) ==
    IF extracted_urls = <<>> THEN acc
    ELSE unique_urls(Tail(extracted_urls),
                     IF \E j \in 1..Len(acc) : acc[j] = Head(extracted_urls)
                     THEN acc
                     ELSE Append(acc, Head(extracted_urls)))

\* the response of get_urls for the value retrieve_query returned
get_urls(urls) ==
    IF urls = None
    THEN [status |-> 404, urls |-> <<>>,
          error |-> "URLs not available yet or invalid query ID"]
    ELSE [status |-> 200, urls |-> urls, error |-> ""]

\* a generator with no handler: the exception leaves it
unhandled(exc) == "faulted"

\* `except asyncio.CancelledError`: how the generator ends when exc is
\* raised in its loop; only a cancellation is caught, and then it returns
except_clause(exc) ==
    IF exc = "CancelledError" THEN "cancelled" ELSE "faulted"

\* background tasks that start as soon as the response is returned
response_started(q) == qpc[q] \in {"streaming", "finished"}

\* background tasks that are dropped when the caller disconnects
response_exhausted(q) == qpc[q] = "finished" /\ gen[q] = "exhausted"

\* the background tasks of a response run once the response has ended,
\* whether its stream was exhausted or the caller went away
response_ended(q) == qpc[q] = "finished"

TotalProduced == LET RECURSIVE sum(_)
                     sum(S) == IF S = {} THEN 0
                               ELSE LET q == CHOOSE x \in S : TRUE
                                    IN  Len(produced[q]) + sum(S \ {q})
                 IN  sum(Queries)

\* rag_query, up to the return of the StreamingResponse
RagQuery(q) ==
    /\ qpc[q] = "idle"
    /\ \E data \in Requests :
        /\ qreq' = [qreq EXCEPT ![q] = data]
        /\ LET missing == check_required(data, RequiredKeys)
           IN  IF missing # "none"
               THEN /\ qresp' = [qresp EXCEPT ![q] = [status |-> 400, detail |-> missing]]
                    /\ qpc' = [qpc EXCEPT ![q] = "rejected"]
                    /\ UNCHANGED <<qid, minted, gateway, scheduled, gen>>
               ELSE /\ \E query_id \in uuid4(minted) :
                        /\ qid' = [qid EXCEPT ![q] = query_id]
                        /\ minted' = minted \cup {query_id}
                    /\ gateway' = gateway \cup {q}
                    /\ scheduled' = scheduled \cup {q}
                    /\ qresp' = [qresp EXCEPT ![q] = [status |-> 200, detail |-> "none"]]
                    /\ gen' = [gen EXCEPT ![q] = "running"]
                    /\ qpc' = [qpc EXCEPT ![q] = "streaming"]
    /\ UNCHANGED <<produced, forwarded, source_urls, unique>>
    /\ UNCHANGED <<storeVars, taskVars, lookupVars, normVars, scrapeVars>>

\* response_gen produces one more segment and the loop body handles it
StreamToken(q) ==
    /\ qpc[q] = "streaming"
    /\ TotalProduced < MaxTokens
    /\ \E text \in Tokens :
        /\ produced' = [produced EXCEPT ![q] = Append(@, text)]
        /\ forwarded' = [forwarded EXCEPT ![q] = process_streaming_response(@, text)]
    /\ UNCHANGED <<qpc, qreq, qresp, qid, gen, source_urls, unique, minted, gateway, scheduled>>
    /\ UNCHANGED <<storeVars, taskVars, lookupVars, normVars, scrapeVars>>

\* response_gen is exhausted: the generator returns
StreamEnd(q) ==
    /\ qpc[q] = "streaming"
    /\ gen' = [gen EXCEPT ![q] = "exhausted"]
    /\ qpc' = [qpc EXCEPT ![q] = "finished"]
    /\ UNCHANGED <<qreq, qresp, qid, produced, forwarded, source_urls, unique, minted, gateway, scheduled>>
    /\ UNCHANGED <<storeVars, taskVars, lookupVars, normVars, scrapeVars>>

\* the caller disconnects: CancelledError is caught and the generator returns
StreamCancel(q) ==
    /\ qpc[q] = "streaming"
    /\ gen' = [gen EXCEPT ![q] = except_clause("CancelledError")]
    /\ qpc' = [qpc EXCEPT ![q] = "finished"]
    /\ UNCHANGED <<qreq, qresp, qid, produced, forwarded, source_urls, unique, minted, gateway, scheduled>>
    /\ UNCHANGED <<storeVars, taskVars, lookupVars, normVars, scrapeVars>>

\* process_url_extraction up to `await query_storage.store_query(...)`, for
\* the list helper.extract_document_urls returns
Extraction(q, extracted_urls) ==
    /\ unique' = [unique EXCEPT ![q] = unique_urls(extracted_urls, <<>>)]
    /\ qpc' = [qpc EXCEPT ![q] = "waiting"]
    /\ UNCHANGED <<qreq, qresp, qid, produced, forwarded, gen, source_urls,
                   minted, gateway, scheduled>>
    /\ UNCHANGED <<storeVars, taskVars, lookupVars, normVars, scrapeVars>>

\* the extraction task, run once the response has ended, over whatever the
\* retrieval result holds
ExtractUrls(q) ==
    /\ q \in scheduled
    /\ response_ended(q)
    /\ \E extracted_urls \in SeqsUpTo(Urls, MaxDocs) : Extraction(q, extracted_urls)

\* the extraction task over a retrieval result whose source URLs are known
ExtractGiven(q) ==
    /\ q \in scheduled
    /\ response_ended(q)
    /\ Extraction(q, source_urls[q])

\* store_query of the extraction task: `async with self._lock`
CommitAcquire(q) ==
    /\ qpc[q] = "waiting"
    /\ lock_acquire(<<"extraction", q>>)
    /\ qpc' = [qpc EXCEPT ![q] = "locked"]
    /\ UNCHANGED <<storage, qreq, qresp, qid, produced, forwarded, gen, source_urls, unique,
                   minted, gateway, scheduled>>
    /\ UNCHANGED <<taskVars, lookupVars, normVars, scrapeVars>>

\* store_query of the extraction task: the assignment, and the lock released;
\* the task returns and its locals are gone
Commit(q) ==
    /\ qpc[q] = "locked"
    /\ lock = <<"extraction", q>>
    /\ storage' = store_query(storage, qid[q], unique[q])
    /\ lock' = NoHolder
    /\ qpc' = [qpc EXCEPT ![q] = "committed"]
    /\ unique' = [unique EXCEPT ![q] = <<>>]
    /\ UNCHANGED <<qreq, qresp, qid, produced, forwarded, gen, source_urls,
                   minted, gateway, scheduled>>
    /\ UNCHANGED <<taskVars, lookupVars, normVars, scrapeVars>>

\* what the store holds for an identifier when a lookup reads it
CommittedIds == {qid[q] : q \in {x \in Queries : qpc[x] = "committed"}}
LookupCase(id) ==
    IF id \in DOMAIN storage THEN "hit"
    ELSE IF id \notin minted THEN "never existed"
    ELSE IF id \in CommittedIds THEN "consumed"
    ELSE "not committed"

\* a GET /get_urls/{query_id} request arrives
GetUrlsCall(l) ==
    /\ lpc[l] = "idle"
    /\ \E query_id \in QueryIds : lid' = [lid EXCEPT ![l] = query_id]
    /\ lresp' = [lresp EXCEPT ![l] = NoResponse]
    /\ lcase' = [lcase EXCEPT ![l] = "none"]
    /\ lpc' = [lpc EXCEPT ![l] = "waiting"]
    /\ UNCHANGED <<storeVars, taskVars, queryVars, normVars, scrapeVars>>

\* retrieve_query of get_urls: `async with self._lock`
GetUrlsAcquire(l) ==
    /\ lpc[l] = "waiting"
    /\ lock_acquire(<<"get_urls", l>>)
    /\ lpc' = [lpc EXCEPT ![l] = "locked"]
    /\ UNCHANGED <<storage, lid, lresp, lcase>>
    /\ UNCHANGED <<taskVars, queryVars, normVars, scrapeVars>>

\* retrieve_query of get_urls: the pop, the lock released, and the response
GetUrlsReturn(l) ==
    /\ lpc[l] = "locked"
    /\ lock = <<"get_urls", l>>
    /\ lresp' = [lresp EXCEPT ![l] = get_urls(retrieve_query(storage, lid[l]))]
    /\ lcase' = [lcase EXCEPT ![l] = LookupCase(lid[l])]
    /\ storage' = storage_pop(storage, lid[l])
    /\ lock' = NoHolder
    /\ lpc' = [lpc EXCEPT ![l] = "idle"]
    /\ UNCHANGED lid
    /\ UNCHANGED <<taskVars, queryVars, normVars, scrapeVars>>

QueryVarsInit ==
    /\ qpc = [q \in Queries |-> "idle"]
    /\ qreq = [q \in Queries |-> [website |-> "missing", timestamp |-> "missing",
                                  query |-> "missing"]]
    /\ qresp = [q \in Queries |-> NoResponse]
    /\ qid = [q \in Queries |-> "none"]
    /\ produced = [q \in Queries |-> <<>>]
    /\ forwarded = [q \in Queries |-> <<>>]
    /\ gen = [q \in Queries |-> "none"]
    /\ unique = [q \in Queries |-> <<>>]
    /\ minted = {}
    /\ gateway = {}
    /\ scheduled = {}

LookupVarsInit ==
    /\ lpc = [l \in Lookups |-> "idle"]
    /\ lid = [l \in Lookups |-> "none"]
    /\ lresp = [l \in Lookups |-> NoResponse]
    /\ lcase = [l \in Lookups |-> "none"]

(***************************************************************************)
(* Website-reference normalization.  Strings are sequences of characters.  *)
(***************************************************************************)
HTTPS == <<"h", "t", "t", "p", "s", ":", "/", "/">>
HTTP == <<"h", "t", "t", "p", ":", "/", "/">>
SITEMAP_XML == <<"s", "i", "t", "e", "m", "a", "p", ".", "x", "m", "l">>
AI21 == <<"a", "i", "2", "1", ".", "c", "o", "m">>
BLAND == <<"b", "l", "a", "n", "d", ".", "a", "i">>

\* Python's `sub in s`
contains(s, sub) ==
    \E j \in 0..(Len(s) - Len(sub)) : SubSeq(s, j + 1, j + Len(sub)) = sub

\* Python's s.startswith(sub)
startswith(s, sub) == Len(sub) <= Len(s) /\ SubSeq(s, 1, Len(sub)) = sub

\* an append that does not look at the last character
append_sitemap_always_slash(s) == s \o <<"/">> \o SITEMAP_XML

\* the inner `if sitemap[-1] != '/'` of both endpoints
append_sitemap(s) ==
    IF s[Len(s)] # "/" THEN s \o <<"/">> \o SITEMAP_XML ELSE s \o SITEMAP_XML

\* sitemap(): from `sitemap = website` to `print(sitemap)`
sitemap(w) ==
    LET s1 == IF ~contains(w, HTTPS) THEN HTTPS \o w ELSE w
    IN  IF ~contains(s1, SITEMAP_XML) THEN append_sitemap(s1) ELSE s1

\* scrape_sitemap(): from `sitemap = data.get('text')` to `print(sitemap)`
scrape_sitemap(text) ==
    LET s0 == text
        s1 == IF ~contains(s0, HTTPS) THEN HTTPS \o s0 ELSE s0
    IN  IF ~contains(s1, SITEMAP_XML) THEN append_sitemap(s1) ELSE s1

RECURSIVE Slashes(_)
Slashes(n) == IF n = 0 THEN <<>> ELSE <<"/">> \o Slashes(n - 1)

\* the website references tried: an optional scheme, a host, and a tail of
\* slashes, a sitemap path, or a path that carries another URL
Websites ==
    {scheme \o host \o tail :
        scheme \in {<<>>, HTTPS, HTTP},
        host \in {AI21, BLAND},
        tail \in {Slashes(n) : n \in 0..MaxSlashes}
                   \cup {<<"/">> \o SITEMAP_XML,
                         <<"/">> \o SITEMAP_XML \o <<"/">>,
                         <<"/", "?", "u", "=">> \o HTTPS \o <<"b">>}}

\* what helper.get_sitemap_attributes may return: a status (0 is success),
\* the number of rows of its df, the nested flag and a message
AttributeDicts ==
    [status : {0, 1, 2}, rows : 0..MaxPages, nested_flag : {0, 1},
     message : {"resolved", "error"}]
EmptyDict == [k \in {} |-> 0]

\* a response that reports count in every outcome
response_with_count(a) ==
    [status |-> IF a.status = 0 THEN 0 ELSE 1, count |-> a.rows,
     nested_flag |-> a.nested_flag, message |-> a.message]

\* sitemap(): response_dict as filled by the two branches on
\* attribute_dict['status']
response_of(a) ==
    IF a.status = 0
    THEN [status |-> 0, count |-> a.rows,
          nested_flag |-> a.nested_flag, message |-> a.message]
    ELSE [status |-> 1, message |-> a.message, nested_flag |-> a.nested_flag]

\* GET /sitemap?website=...
SitemapEndpoint ==
    /\ sitemapUrl = <<>>
    /\ sitemapUrl' = sitemap(website)
    /\ \E a \in AttributeDicts :
        /\ attribute_dict' = a
        /\ response_dict' = response_of(a)
    /\ UNCHANGED <<website, scrapeUrl>>
    /\ UNCHANGED <<storeVars, taskVars, queryVars, lookupVars, scrapeVars>>

\* POST /scrape_sitemap with body {"text": ...}
ScrapeEndpoint ==
    /\ scrapeUrl = <<>>
    /\ scrapeUrl' = scrape_sitemap(website)
    /\ UNCHANGED <<website, sitemapUrl, attribute_dict, response_dict>>
    /\ UNCHANGED <<storeVars, taskVars, queryVars, lookupVars, scrapeVars>>

NormVarsInit ==
    /\ website = <<>>
    /\ sitemapUrl = <<>>
    /\ scrapeUrl = <<>>
    /\ attribute_dict = EmptyDict
    /\ response_dict = EmptyDict

(***************************************************************************)
(* The scrape-and-ingest run: the generator scraping_process.  A page link *)
(* is an origin ("" for a relative link) and a path; each action runs the  *)
(* generator from the yield where it is suspended to its next yield.       *)
(***************************************************************************)
website_name == "w"
NoItem == [origin |-> "", path |-> ""]
PageItems == {[origin |-> "", path |-> "/a"],
              [origin |-> "https://w", path |-> "/a"],
              [origin |-> "https://w", path |-> "/b"],
              [origin |-> "https://w", path |-> "/c"]}

\* `if item.startswith('/'): item = f"https://{website_name}{item}"`
qualify(item) ==
    IF item.origin = ""
    THEN [origin |-> "https://" \o website_name, path |-> item.path]
    ELSE item

Line(kind) == [kind |-> kind, n |-> 0, total |-> 0, item |-> NoItem]
PageLine(n, total, item) == [kind |-> "page", n |-> n, total |-> total, item |-> item]
FailLine(item) == [kind |-> "failed", n |-> 0, total |-> 0, item |-> item]
UpdateLine(n) == [kind |-> "update", n |-> n, total |-> 0, item |-> NoItem]
Call(fn, item, ok) == [fn |-> fn, item |-> item, ok |-> ok]

\* text_dict[key] = text, on a dict that keeps insertion order
dict_set(d, key, text) ==
    IF \E k \in 1..Len(d) : d[k][1] = key
    THEN [k \in 1..Len(d) |-> IF d[k][1] = key THEN <<key, text>> ELSE d[k]]
    ELSE Append(d, <<key, text>>)

\* a run that never takes the zero-page branch
never_empty(total) == FALSE

\* `if attribute_dict['df'].shape[0] == 0`
found_no_pages(total) == total = 0

\* a failure handler that records the page with no text
on_fault_null_fill(d, item) == dict_set(d, item, "None")

\* text_dict after the `except Exception` branch for a page
on_fault(d, item) == d

\* a run that ingests whatever the persist returned
saved_ignored(flag) == TRUE

\* `if flag:` after helper.save_to_gcloud
saved(flag) == flag

\* `if success:` after helper.download_blob_from_gcloud
downloaded(success) == success

\* a forwarding that puts the newest update at the head of the stream
yield_update_first(lines, update) == <<update>> \o lines

\* `for update in helper.store_to_weaviate(...): yield update`
yield_update(lines, update) == Append(lines, update)

\* a generator that returns without its last yield
return_silently(lines) == lines

\* `yield f"All steps completed successfully.\n"`, after the if/else
last_yield(lines) == Append(lines, Line("all steps completed"))

\* the loop of scraping_process from the top of an iteration, with text_dict
\* and the helper calls as they stand: up to the yield of the page line, or,
\* past the last page, through the persist to the yield that follows it
LoopFrom(d, cl) ==
    IF i < Len(pages)
    THEN /\ i' = i + 1
         /\ out' = Append(out, PageLine(i + 1, Len(pages), qualify(pages[i + 1])))
         /\ text_dict' = d
         /\ calls' = cl
         /\ spc' = "page"
         /\ UNCHANGED <<pages, df>>
    ELSE \E flag \in BOOLEAN :
         /\ text_dict' = d
         /\ df' = d
         /\ calls' = Append(cl, Call("save_to_gcloud", NoItem, flag))
         /\ IF saved(flag)
            THEN /\ out' = Append(out, Line("saved"))
                 /\ spc' = "saved"
            ELSE /\ out' = Append(out, Line("not completed"))
                 /\ spc' = "not completed"
         /\ UNCHANGED <<pages, i>>

NotScrape == UNCHANGED <<storeVars, taskVars, queryVars, lookupVars, normVars>>

\* the generator is started
ScrapeStart ==
    /\ spc = "new"
    /\ IF found_no_pages(Len(pages))
       THEN /\ out' = Append(out, Line("found 0 pages"))
            /\ spc' = "found 0 pages"
            /\ UNCHANGED <<pages, i, text_dict, df, calls>>
       ELSE LoopFrom(<<>>, calls)
    /\ NotScrape

\* helper.scrape_link returns the text of the page
ScrapeOk ==
    /\ spc = "page"
    /\ LET item == qualify(pages[i])
       IN  LoopFrom(dict_set(text_dict, item, "text"),
                    Append(calls, Call("scrape_link", item, TRUE)))
    /\ NotScrape

\* helper.scrape_link raises
ScrapeFault ==
    /\ spc = "page"
    /\ LET item == qualify(pages[i])
       IN  /\ text_dict' = on_fault(text_dict, item)
           /\ calls' = Append(calls, Call("scrape_link", item, FALSE))
           /\ out' = Append(out, FailLine(item))
    /\ spc' = "failed"
    /\ UNCHANGED <<pages, i, df>>
    /\ NotScrape

\* `continue` after the failure line
ScrapeContinue ==
    /\ spc = "failed"
    /\ LoopFrom(text_dict, calls)
    /\ NotScrape

\* helper.download_blob_from_gcloud after "Finished saving to GCP Bucket"
Reload ==
    /\ spc = "saved"
    /\ \E success \in BOOLEAN :
        /\ calls' = Append(calls, Call("download_blob_from_gcloud", NoItem, success))
        /\ IF downloaded(success)
           THEN /\ out' = Append(out, Line("chunking"))
                /\ spc' = "chunking"
           ELSE /\ out' = last_yield(out)
                /\ spc' = "final"
    /\ UNCHANGED <<pages, i, text_dict, df>>
    /\ NotScrape

NumUpdates == Len(SelectSeq(out, LAMBDA l : l.kind = "update"))

\* helper.store_to_weaviate is called and yields its first update, or none
IngestStart ==
    /\ spc = "chunking"
    /\ calls' = Append(calls, Call("store_to_weaviate", NoItem, TRUE))
    /\ \/ /\ NumUpdates < MaxUpdates
          /\ out' = yield_update(out, UpdateLine(NumUpdates + 1))
          /\ spc' = "update"
       \/ /\ out' = last_yield(out)
          /\ spc' = "final"
    /\ UNCHANGED <<pages, i, text_dict, df>>
    /\ NotScrape

\* helper.store_to_weaviate yields one more update, or is exhausted
IngestNext ==
    /\ spc = "update"
    /\ \/ /\ NumUpdates < MaxUpdates
          /\ out' = yield_update(out, UpdateLine(NumUpdates + 1))
          /\ spc' = "update"
       \/ /\ out' = last_yield(out)
          /\ spc' = "final"
    /\ UNCHANGED <<pages, i, text_dict, df, calls>>
    /\ NotScrape

\* after the "0 pages" line or the "did not complete" line: the last yield
ScrapeLastLine ==
    /\ spc \in {"found 0 pages", "not completed"}
    /\ out' = last_yield(out)
    /\ spc' = "final"
    /\ UNCHANGED <<pages, i, text_dict, df, calls>>
    /\ NotScrape

\* the generator returns
ScrapeReturn ==
    /\ spc = "final"
    /\ spc' = "end"
    /\ UNCHANGED <<pages, i, text_dict, df, out, calls>>
    /\ NotScrape

\* the caller disconnects: the generator is closed at its current yield
ScrapeDisconnect ==
    /\ spc \notin {"new", "end", "aborted"}
    /\ spc' = "aborted"
    /\ UNCHANGED <<pages, i, text_dict, df, out, calls>>
    /\ NotScrape

ScrapeVarsInit ==
    /\ pages = <<>>
    /\ spc = "new"
    /\ i = 0
    /\ text_dict = <<>>
    /\ df = <<>>
    /\ out = <<>>
    /\ calls = <<>>

StoreVarsInit ==
    /\ storage = EmptyStorage
    /\ lock = NoHolder

TaskVarsInit ==
    /\ tpc = [t \in Tasks |-> "idle"]
    /\ top = [t \in Tasks |-> NoOp]
    /\ opLog = <<>>

StoreInit ==
    /\ StoreVarsInit
    /\ TaskVarsInit
    /\ QueryVarsInit
    /\ source_urls = NoSources
    /\ LookupVarsInit
    /\ NormVarsInit
    /\ ScrapeVarsInit

StoreNext ==
    \E t \in Tasks :
        \/ TaskCall(t)
        \/ TaskAcquire(t)
        \/ TaskStore(t)
        \/ TaskRetrieve(t)

StoreSpec == StoreInit /\ [][StoreNext]_vars

Init ==
    /\ StoreVarsInit
    /\ TaskVarsInit
    /\ QueryVarsInit
    /\ source_urls = NoSources
    /\ LookupVarsInit
    /\ NormVarsInit
    /\ ScrapeVarsInit

Next ==
    \/ \E q \in Queries :
        \/ RagQuery(q)
        \/ StreamToken(q)
        \/ StreamEnd(q)
        \/ StreamCancel(q)
        \/ ExtractUrls(q)
        \/ CommitAcquire(q)
        \/ Commit(q)
    \/ \E l \in Lookups :
        \/ GetUrlsCall(l)
        \/ GetUrlsAcquire(l)
        \/ GetUrlsReturn(l)

Spec == Init /\ [][Next]_vars

\* The normalization applied to each website reference by both endpoints.
NormInit ==
    /\ StoreVarsInit
    /\ TaskVarsInit
    /\ QueryVarsInit
    /\ source_urls = NoSources
    /\ LookupVarsInit
    /\ ScrapeVarsInit
    /\ website \in Websites
    /\ sitemapUrl = <<>>
    /\ scrapeUrl = <<>>
    /\ attribute_dict = EmptyDict
    /\ response_dict = EmptyDict

NormNext ==
    \/ SitemapEndpoint
    \/ ScrapeEndpoint

NormSpec == NormInit /\ [][NormNext]_vars

\* One scrape run over each page list the sitemap may resolve to.
ScrapeInit ==
    /\ StoreVarsInit
    /\ TaskVarsInit
    /\ QueryVarsInit
    /\ source_urls = NoSources
    /\ LookupVarsInit
    /\ NormVarsInit
    /\ pages \in SeqsUpTo(PageItems, MaxPages)
    /\ spc = "new"
    /\ i = 0
    /\ text_dict = <<>>
    /\ df = <<>>
    /\ out = <<>>
    /\ calls = <<>>

ScrapeNext ==
    \/ ScrapeStart
    \/ ScrapeOk
    \/ ScrapeFault
    \/ ScrapeContinue
    \/ Reload
    \/ IngestStart
    \/ IngestNext
    \/ ScrapeLastLine
    \/ ScrapeReturn
    \/ ScrapeDisconnect

ScrapeSpec == ScrapeInit /\ [][ScrapeNext]_vars

(***************************************************************************)
(* Scheduling.  A response generator is finite and its caller either reads *)
(* it to the end or disconnects; the event loop runs every task that is    *)
(* ready; asyncio.Lock wakes its waiters in turn, so a task that keeps     *)
(* asking for the lock gets it.                                            *)
(***************************************************************************)
Fairness ==
    /\ \A q \in Queries :
        /\ WF_vars(StreamEnd(q) \/ StreamCancel(q))
        /\ WF_vars(ExtractUrls(q))
        /\ SF_vars(CommitAcquire(q))
        /\ WF_vars(Commit(q))
    /\ \A l \in Lookups :
        /\ SF_vars(GetUrlsAcquire(l))
        /\ WF_vars(GetUrlsReturn(l))

\* Liveness is checked for one accepted query contending for the lock with
\* the lookups: the behaviours start after rag_query has rejected the other
\* request, whose body was empty.
OneQueryInit ==
    /\ qpc = [q \in Queries |-> IF q = "qB" THEN "rejected" ELSE "idle"]
    /\ qreq = [q \in Queries |-> [website |-> "missing", timestamp |-> "missing",
                                  query |-> "missing"]]
    /\ qresp = [q \in Queries |-> IF q = "qB"
                                  THEN [status |-> 400, detail |-> "website"]
                                  ELSE NoResponse]
    /\ qid = [q \in Queries |-> "none"]
    /\ produced = [q \in Queries |-> <<>>]
    /\ forwarded = [q \in Queries |-> <<>>]
    /\ gen = [q \in Queries |-> "none"]
    /\ unique = [q \in Queries |-> <<>>]
    /\ minted = {}
    /\ gateway = {}
    /\ scheduled = {}

FairInit ==
    /\ StoreVarsInit
    /\ TaskVarsInit
    /\ LookupVarsInit
    /\ NormVarsInit
    /\ ScrapeVarsInit
    /\ OneQueryInit
    /\ source_urls = NoSources

FairSpec == FairInit /\ [][Next]_vars /\ Fairness

\* The extraction task of one accepted query, over each list of source URLs
\* its retrieval result may hold.
ExtractionInit ==
    /\ StoreVarsInit
    /\ TaskVarsInit
    /\ LookupVarsInit
    /\ NormVarsInit
    /\ ScrapeVarsInit
    /\ OneQueryInit
    /\ \E urls \in SeqsUpTo(Urls, MaxSources) :
        source_urls = [q \in Queries |-> IF qpc[q] = "idle" THEN urls ELSE <<>>]

ExtractionNext ==
    \E q \in Queries :
        \/ RagQuery(q)
        \/ StreamToken(q)
        \/ StreamEnd(q)
        \/ StreamCancel(q)
        \/ ExtractGiven(q)
        \/ CommitAcquire(q)
        \/ Commit(q)

ExtractionSpec == ExtractionInit /\ [][ExtractionNext]_vars

\* A query and a scrape run side by side, each of which its caller may
\* leave: one accepted query (the other request was rejected) and a scrape
\* run over a sitemap of no page or of one page.
DisconnectInit ==
    /\ StoreVarsInit
    /\ TaskVarsInit
    /\ LookupVarsInit
    /\ NormVarsInit
    /\ OneQueryInit
    /\ source_urls = NoSources
    /\ pages \in {<<>>, <<[origin |-> "", path |-> "/a"]>>}
    /\ spc = "new"
    /\ i = 0
    /\ text_dict = <<>>
    /\ df = <<>>
    /\ out = <<>>
    /\ calls = <<>>

DisconnectNext ==
    \/ \E q \in Queries :
        \/ RagQuery(q)
        \/ StreamToken(q)
        \/ StreamEnd(q)
        \/ StreamCancel(q)
        \/ ExtractUrls(q)
        \/ CommitAcquire(q)
        \/ Commit(q)
    \/ ScrapeNext

DisconnectSpec == DisconnectInit /\ [][DisconnectNext]_vars

(***************************************************************************)
(* Properties of the Correlation Store and of the query pipeline.          *)
(***************************************************************************)
OpsOn(id) == SelectSeq(opLog, LAMBDA e : e.id = id)
NonEmpty(texts) == SelectSeq(texts, LAMBDA t : t # "")
IsPrefix(s, t) == Len(s) <= Len(t) /\ SubSeq(t, 1, Len(s)) = s

\* C1: among the completed operations on one identifier, a retrieve_query
\* that directly follows a store_query(id, urls) returns exactly urls, a
\* retrieve_query that directly follows that one returns the empty list, and
\* after a retrieve_query the store holds no entry for the identifier.
C1_StoreThenRetrieve ==
    \A id \in QueryIds :
        LET ops == OpsOn(id)
        IN  /\ \A j \in 1..(Len(ops) - 1) :
                (ops[j].kind = "store" /\ ops[j + 1].kind = "retrieve") =>
                    /\ ops[j + 1].urls = ops[j].urls
                    /\ (j + 2 <= Len(ops) /\ ops[j + 2].kind = "retrieve") =>
                            ops[j + 2].urls = <<>>
            /\ (ops # <<>> /\ ops[Len(ops)].kind = "retrieve") => id \notin DOMAIN storage

C1_Witness ==
    \E id \in QueryIds :
        OpsOn(id) = << [kind |-> "store", id |-> id, urls |-> <<"u2", "u1">>],
                       [kind |-> "retrieve", id |-> id, urls |-> <<"u2", "u1">>],
                       [kind |-> "retrieve", id |-> id, urls |-> <<>>] >>

\* C2: get_urls answers a hit with status 200 and the stored list, and a miss
\* (identifier never minted, not yet committed, or already consumed) with
\* status 404.
C2_MissIsNotFound ==
    \A l \in Lookups :
        lresp[l].status # 0 =>
            IF lcase[l] = "hit"
            THEN lresp[l].status = 200
            ELSE lresp[l].status = 404

\* C3: every accepted query, whether its stream is read to the end or
\* cancelled by the caller, leads to an entry for its identifier in the store.
C3_ExtractionCommits ==
    \A q \in Queries :
        (qpc[q] \in {"streaming", "finished"}) ~> (qid[q] \in DOMAIN storage)

C3_Witness ==
    \E q \in Queries :
        /\ gen[q] = "cancelled"
        /\ qpc[q] = "committed"
        /\ qid[q] \in DOMAIN storage

\* C4: at every point the segments yielded to the caller are a prefix of the
\* non-empty segments produced, in the order produced; no empty segment is
\* yielded; and when the generator is exhausted every non-empty segment has
\* been yielded.
C4_ForwardedInOrder ==
    \A q \in Queries :
        /\ IsPrefix(forwarded[q], NonEmpty(produced[q]))
        /\ \A j \in 1..Len(forwarded[q]) : forwarded[q][j] # ""
        /\ gen[q] = "exhausted" => forwarded[q] = NonEmpty(produced[q])

C4_Witness ==
    \E q \in Queries :
        /\ produced[q] = <<"", "b">>
        /\ forwarded[q] = <<"b">>

\* the outcome of a rejected request
C5_Rejected(q) ==
    /\ qpc[q] = "rejected"
    /\ qresp[q].status = 400
    /\ qresp[q].detail =
          IF qreq[q].website \in {"missing", ""} THEN "website"
          ELSE IF qreq[q].timestamp \in {"missing", ""} THEN "timestamp"
          ELSE "query"
    /\ qid[q] = "none"
    /\ q \notin gateway
    /\ q \notin scheduled

\* C5: a request with website, timestamp or query absent or empty is answered
\* with status 400 naming the first such field in that order; it gets no
\* identifier, no gateway query and no extraction task, and its handling
\* leaves the store and the identifiers minted as they were.
C5_ValidationFirst ==
    /\ [](\A q \in Queries :
            (qpc[q] # "idle" /\ \E k \in {"website", "timestamp", "query"} :
                                    qreq[q][k] \in {"missing", ""})
                => C5_Rejected(q))
    /\ [][\A q \in Queries :
            (qpc[q] = "idle" /\ qpc'[q] = "rejected")
                => (storage' = storage /\ lock' = lock /\ minted' = minted)]_vars

C5_Witness ==
    \E q \in Queries :
        /\ qreq[q] = [website |-> "x", timestamp |-> "", query |-> "missing"]
        /\ qresp[q] = [status |-> 400, detail |-> "timestamp"]

\* C6: the identifier minted for a request is not the key of an entry of the
\* store nor the identifier of another request, and the commit of a query
\* never replaces an entry already in the store.
C6_FreshIdentifier ==
    [][\A q \in Queries :
        /\ (qid[q] = "none" /\ qid'[q] # "none") =>
                /\ qid'[q] \notin DOMAIN storage
                /\ \A r \in Queries \ {q} : qid[r] # qid'[q]
        /\ (qpc[q] = "locked" /\ qpc'[q] = "committed") =>
                /\ qid[q] \notin DOMAIN storage
                /\ \A k \in DOMAIN storage : storage'[k] = storage[k]]_vars

C6_Witness ==
    /\ \A q \in Queries : qpc[q] = "committed" /\ qid[q] \in DOMAIN storage
    /\ Cardinality(DOMAIN storage) = Cardinality(Queries)


(***************************************************************************)
(* Properties of the normalization.                                        *)
(***************************************************************************)
NormalizedAI21 == HTTPS \o AI21 \o <<"/">> \o SITEMAP_XML
EndsWith(s, t) == Len(t) <= Len(s) /\ SubSeq(s, Len(s) - Len(t) + 1, Len(s)) = t
\* the documented examples, for a computed result r
C7_Examples(r) ==
    /\ website \in {AI21, HTTPS \o AI21, AI21 \o <<"/">>} => r = NormalizedAI21
    /\ website = NormalizedAI21 => r = website
\* sitemap.xml was appended: r is neither the input nor the prefixed input
C7_Appended(r) == r \notin {website, HTTPS \o website}
\* r is some text that does not end in a slash, one slash, and sitemap.xml
C7_OneSlash(r) ==
    /\ EndsWith(r, <<"/">> \o SITEMAP_XML)
    /\ ~EndsWith(r, <<"/", "/">> \o SITEMAP_XML)
C7_Results == {r \in {sitemapUrl, scrapeUrl} : r # <<>>}

\* C7 as stated: the four examples; whenever sitemap.xml is appended exactly
\* one slash stands between it and the text before; both endpoints agree.
C7_AlwaysOneSlash ==
    /\ \A r \in C7_Results :
        /\ C7_Examples(r)
        /\ C7_Appended(r) => C7_OneSlash(r)
    /\ Cardinality(C7_Results) <= 1

\* C7 amended: the four examples; whenever sitemap.xml is appended, the
\* result is the input, prefixed with the scheme when the input holds none,
\* followed by a slash only if it does not end in one, followed by
\* sitemap.xml, so exactly one slash separates the two unless the prefixed
\* input ends in two or more slashes; both endpoints agree.
C7_Normalization ==
    /\ \A r \in C7_Results :
        /\ C7_Examples(r)
        /\ C7_Appended(r) =>
            \E p \in {website, HTTPS \o website} :
                /\ r = (IF EndsWith(p, <<"/">>) THEN p ELSE p \o <<"/">>) \o SITEMAP_XML
                /\ ~EndsWith(p, <<"/", "/">>) => C7_OneSlash(r)
    /\ Cardinality(C7_Results) <= 1

C7_Witness ==
    /\ website = AI21 \o <<"/">>
    /\ sitemapUrl = NormalizedAI21
    /\ scrapeUrl = NormalizedAI21

(***************************************************************************)
(* Properties of the scrape run.                                           *)
(***************************************************************************)
Attempts == SelectSeq(calls, LAMBDA c : c.fn = "scrape_link")
Succeeded == {Attempts[k].item : k \in {n \in 1..Len(Attempts) : Attempts[n].ok}}
Failed == {Attempts[k].item : k \in {n \in 1..Len(Attempts) : ~Attempts[n].ok}}
Count(seq, Test(_)) == Cardinality({k \in 1..Len(seq) : Test(seq[k])})
Called(fn) == \E k \in 1..Len(calls) : calls[k].fn = fn
PageUrls == {qualify(item) : item \in PageItems}
\* every failed attempt has its failure line, every page is attempted in
\* order once the loop is over, and a run read to its end ends with the
\* completion line
C8_RunContinues ==
    /\ \A url \in PageUrls :
        Count(out, LAMBDA l : l = FailLine(url))
            = Count(Attempts, LAMBDA c : c.item = url /\ ~c.ok)
    /\ \A k \in 1..Len(Attempts) : Attempts[k].item = qualify(pages[k])
    /\ (Called("save_to_gcloud") \/ spc \in {"final", "end"}) => Len(Attempts) = Len(pages)
    /\ spc \in {"final", "end"} =>
            /\ out[Len(out)] = Line("all steps completed")
            /\ Called("save_to_gcloud")
\* the rows of the table whose key is url
C8_Rows(url) == Count(df, LAMBDA row : row[1] = url)

\* C8 as stated: over a non-empty page list, the run continues past every
\* fault, and the table has exactly one record for each successfully scraped
\* URL and none for any URL whose scrape failed.
C8_NoRecordForFailedUrl ==
    Len(pages) > 0 =>
        /\ C8_RunContinues
        /\ Called("save_to_gcloud") =>
            \A url \in PageUrls :
                /\ url \in Succeeded => C8_Rows(url) = 1
                /\ url \in Failed => C8_Rows(url) = 0

\* C8 amended: over a non-empty page list, the run continues past every
\* fault, and the table has exactly one record, with the scraped text, for
\* each URL that was scraped successfully at least once and no record for a
\* URL none of whose scrapes succeeded.
C8_PartialFailure ==
    Len(pages) > 0 =>
        /\ C8_RunContinues
        /\ Called("save_to_gcloud") =>
            /\ \A url \in PageUrls :
                C8_Rows(url) = IF url \in Succeeded THEN 1 ELSE 0
            /\ \A k \in 1..Len(df) : df[k][1] \in Succeeded /\ df[k][2] = "text"

C8_Witness ==
    /\ pages = << [origin |-> "", path |-> "/a"],
                  [origin |-> "https://w", path |-> "/b"],
                  [origin |-> "https://w", path |-> "/c"] >>
    /\ spc = "end"
    /\ Failed = {[origin |-> "https://w", path |-> "/b"]}
    /\ df = << <<[origin |-> "https://w", path |-> "/a"], "text">>,
               <<[origin |-> "https://w", path |-> "/c"], "text">> >>
    /\ Count(out, LAMBDA l : l = FailLine([origin |-> "https://w", path |-> "/b"])) = 1

\* C9: when the sitemap resolves to no page, the lines yielded are the
\* "0 pages" line and then the completion line, and no helper is called:
\* no scrape, no persist, no reload, no ingestion.
C9_ZeroPages ==
    Len(pages) = 0 =>
        /\ calls = <<>>
        /\ IsPrefix(out, <<Line("found 0 pages"), Line("all steps completed")>>)
        /\ spc \in {"final", "end"} =>
                out = <<Line("found 0 pages"), Line("all steps completed")>>
        /\ spc # "new" => out # <<>>

C9_Witness ==
    /\ pages = <<>>
    /\ spc = "end"
    /\ out = <<Line("found 0 pages"), Line("all steps completed")>>
    /\ calls = <<>>

\* C10: the ingestion is called only after a persist that returned success
\* and, after it, a reload that returned success; nothing is reloaded or
\* ingested after a failed persist, nothing is ingested after a failed
\* reload, and no ingestion update is yielded before the ingestion is called.
C10_IngestAfterDurableCopy ==
    /\ \A k \in 1..Len(calls) :
        /\ calls[k].fn = "download_blob_from_gcloud" =>
                \E a \in 1..(k - 1) : calls[a].fn = "save_to_gcloud" /\ calls[a].ok
        /\ calls[k].fn = "store_to_weaviate" =>
                \E a \in 1..(k - 1) : \E b \in (a + 1)..(k - 1) :
                    /\ calls[a].fn = "save_to_gcloud" /\ calls[a].ok
                    /\ calls[b].fn = "download_blob_from_gcloud" /\ calls[b].ok
        /\ (calls[k].fn = "save_to_gcloud" /\ ~calls[k].ok) =>
                \A n \in (k + 1)..Len(calls) :
                    calls[n].fn \notin {"download_blob_from_gcloud", "store_to_weaviate"}
        /\ (calls[k].fn = "download_blob_from_gcloud" /\ ~calls[k].ok) =>
                \A n \in (k + 1)..Len(calls) : calls[n].fn # "store_to_weaviate"
    /\ (\E k \in 1..Len(out) : out[k].kind = "update") => Called("store_to_weaviate")
    /\ Count(calls, LAMBDA c : c.fn = "save_to_gcloud") <= 1

C10_Witness ==
    /\ Called("store_to_weaviate")
    /\ \E k \in 1..Len(out) : out[k].kind = "update"

C10_PersistFailedWitness ==
    /\ \E k \in 1..Len(calls) : calls[k].fn = "save_to_gcloud" /\ ~calls[k].ok
    /\ spc = "end"

(***************************************************************************)
(* Further properties of the scrape run.                                   *)
(***************************************************************************)
C11_Completions == Count(out, LAMBDA l : l = Line("all steps completed"))

\* C11: once the generator has reached its end the completion line has been
\* yielded exactly once and is the last line of the stream, whichever path
\* the run took (zero pages, persist failed, reload failed, ingestion done);
\* before that it has not been yielded at all, and a run the caller left
\* has yielded it at most once, as its last line.
C11_CompletionLineLast ==
    /\ spc \in {"final", "end"} =>
            /\ C11_Completions = 1
            /\ out[Len(out)] = Line("all steps completed")
    /\ spc \notin {"final", "end", "aborted"} => C11_Completions = 0
    /\ spc = "aborted" =>
            \/ C11_Completions = 0
            \/ C11_Completions = 1 /\ out[Len(out)] = Line("all steps completed")

C11_Witness ==
    /\ spc = "end"
    /\ \E k \in 1..Len(calls) : calls[k].fn = "download_blob_from_gcloud" /\ ~calls[k].ok
    /\ out[Len(out)] = Line("all steps completed")
    /\ C11_Completions = 1

(***************************************************************************)
(* Further properties of the query pipeline and of the store.              *)
(***************************************************************************)
\* the position of the first occurrence of u in src
C12_First(src, u) ==
    CHOOSE k \in 1..Len(src) : src[k] = u /\ \A m \in 1..(k - 1) : src[m] # u
\* list holds the distinct elements of src, each once, in first-seen order
C12_Distinct(list, src) ==
    /\ \A a, b \in 1..Len(list) : a # b => list[a] # list[b]
    /\ {list[k] : k \in 1..Len(list)} = {src[k] : k \in 1..Len(src)}
    /\ \A a, b \in 1..Len(list) :
            a < b => C12_First(src, list[a]) < C12_First(src, list[b])

\* C12: the list process_url_extraction builds from the extracted URLs, and
\* the entry its store_query writes under the identifier of the query, holds
\* no URL twice, holds exactly the distinct URLs extracted, and orders them
\* by their first occurrence among the extracted URLs.
C12_CommitsDistinctUrls ==
    \A q \in Queries :
        /\ qpc[q] \in {"waiting", "locked"} =>
                C12_Distinct(unique[q], source_urls[q])
        /\ qpc[q] = "committed" =>
                /\ qid[q] \in DOMAIN storage
                /\ C12_Distinct(storage[qid[q]], source_urls[q])

C12_Witness ==
    \E q \in Queries :
        /\ qpc[q] = "committed"
        /\ source_urls[q] = <<"u2", "u1", "u2">>
        /\ storage[qid[q]] = <<"u2", "u1">>

(***************************************************************************)
(* Further properties of the sitemap and scrape endpoints.                 *)
(***************************************************************************)
\* C13: the response of the sitemap endpoint always carries status,
\* nested_flag and message, the last two as the resolution returned them; on
\* a successful resolution it carries status 0 and count, the number of
\* pages resolved, and nothing else; on a failed resolution it carries a
\* non-zero status and no count.
C13_DryRunResponse ==
    sitemapUrl # <<>> =>
        /\ {"status", "nested_flag", "message"} \subseteq DOMAIN response_dict
        /\ response_dict.nested_flag = attribute_dict.nested_flag
        /\ response_dict.message = attribute_dict.message
        /\ attribute_dict.status = 0 =>
                /\ DOMAIN response_dict = {"status", "count", "nested_flag", "message"}
                /\ response_dict.status = 0
                /\ response_dict.count = attribute_dict.rows
        /\ attribute_dict.status # 0 =>
                /\ DOMAIN response_dict = {"status", "nested_flag", "message"}
                /\ response_dict.status # 0

C13_Witness ==
    /\ sitemapUrl # <<>>
    /\ attribute_dict.status = 2
    /\ attribute_dict.rows = 0
    /\ response_dict = [status |-> 1, message |-> "error", nested_flag |-> 0]

(***************************************************************************)
(* Further properties of the Correlation Store.                            *)
(***************************************************************************)
\* C14: of the retrieve_query(id) calls that complete after a
\* store_query(id, urls) and before any other store_query(id, ...), however
\* the callers interleave, the first to run returns urls and every other
\* returns the empty list: no two of them return a non-empty list.
C14_DeliveredOnce ==
    \A id \in QueryIds :
        LET ops == OpsOn(id)
        IN  \A j \in 1..Len(ops) :
                ops[j].kind = "store" =>
                    \A k \in (j + 1)..Len(ops) :
                        (\A m \in (j + 1)..k : ops[m].kind = "retrieve") =>
                            /\ ops[k].urls = IF k = j + 1 THEN ops[j].urls ELSE <<>>
                            /\ Cardinality({m \in (j + 1)..k : ops[m].urls # <<>>}) <= 1

\* one caller has received the list while another, which asked for the same
\* identifier, is still waiting for the lock
C14_Witness ==
    \E id \in QueryIds : \E t \in Tasks :
        /\ OpsOn(id) = << [kind |-> "store", id |-> id, urls |-> <<"u1">>],
                          [kind |-> "retrieve", id |-> id, urls |-> <<"u1">>] >>
        /\ tpc[t] = "waiting"
        /\ top[t] = [kind |-> "retrieve", id |-> id, urls |-> <<>>]

\* the operations inside `async with self._lock`
C15_Holders ==
    {<<"task", t>> : t \in {x \in Tasks : tpc[x] = "locked"}}
        \cup {<<"extraction", q>> : q \in {x \in Queries : qpc[x] = "locked"}}
        \cup {<<"get_urls", l>> : l \in {x \in Lookups : lpc[x] = "locked"}}

\* C15: at most one store_query or retrieve_query is inside the critical
\* section, and it is the holder of the lock; the holder is never a task
\* suspended on a token stream or in a scrape run, and the only step it takes
\* with the lock is the map access that releases it; every operation waiting
\* for the lock eventually acquires it.
C15_LockDiscipline ==
    /\ [](/\ Cardinality(C15_Holders) <= 1
          /\ C15_Holders = IF lock = NoHolder THEN {} ELSE {lock}
          /\ \A q \in Queries : qpc[q] \in {"streaming", "finished", "waiting"} =>
                    lock # <<"extraction", q>>)
    /\ [][lock # NoHolder =>
            \/ lock' = lock /\ storage' = storage
            \/ lock' = NoHolder]_vars
    /\ \A q \in Queries : (qpc[q] = "waiting") ~> (qpc[q] = "locked")
    /\ \A l \in Lookups : (lpc[l] = "waiting") ~> (lpc[l] = "locked")

\* the extraction task holds the lock while a lookup waits for it
C15_Witness ==
    \E q \in Queries : \E l \in Lookups :
        /\ lock = <<"extraction", q>>
        /\ qpc[q] = "locked"
        /\ lpc[l] = "waiting"

\* C16: once the caller has cancelled a query, nothing more is forwarded for
\* it and its generator stays ended as one that returned: the generator is
\* never left by an exception, the response keeps its status, and the
\* extraction task of the query is neither unscheduled nor blocked.
C16_CancelEndsCleanly ==
    /\ [](\A q \in Queries :
            /\ gen[q] \in {"none", "running", "exhausted", "cancelled"}
            /\ gen[q] = "cancelled" =>
                    /\ qpc[q] \in {"finished", "waiting", "locked", "committed"}
                    /\ qresp[q].status = 200
                    /\ q \in scheduled
                    /\ IsPrefix(forwarded[q], NonEmpty(produced[q])))
    /\ [][\A q \in Queries :
            gen[q] = "cancelled" =>
                /\ gen'[q] = "cancelled"
                /\ forwarded'[q] = forwarded[q]
                /\ produced'[q] = produced[q]
                /\ qresp'[q] = qresp[q]]_vars

\* a query cancelled after its first token was forwarded
C16_Witness ==
    \E q \in Queries :
        /\ gen[q] = "cancelled"
        /\ forwarded[q] = <<"a">>
        /\ qpc[q] = "committed"

(***************************************************************************)
(* Further properties of the scrape run: failures of the durable copy.     *)
(***************************************************************************)
C17_ReloadFailed ==
    \E k \in 1..Len(calls) : calls[k].fn = "download_blob_from_gcloud" /\ ~calls[k].ok
\* the lines that tell the caller of a failure of the durable copy
C17_Notices == {"not completed", "reload failed"}

\* C17: in a run whose persist succeeded and whose reload failed, nothing is
\* ingested, the generator runs to its end, and the stream holds an error
\* notice, after the "Finished saving" line, from which the caller can tell
\* that the reload failed.
C17_ReloadFailureReported ==
    C17_ReloadFailed =>
        /\ ~Called("store_to_weaviate")
        /\ spc \in {"final", "end", "aborted"}
        /\ \E k \in 1..Len(out) :
                /\ out[k].kind \in C17_Notices
                /\ \E s \in 1..(k - 1) : out[s].kind = "saved"

C18_PageLines == SelectSeq(out, LAMBDA l : l.kind = "page")
C18_Updates == SelectSeq(out, LAMBDA l : l.kind = "update")

\* C18: the page lines yielded so far are those of the first pages of the
\* sitemap, in its order, numbered 1, 2, ... of the total; a failure line
\* directly follows the page line of the same page; page and failure lines
\* come before every other line, and all of them have been yielded when the
\* persist is called; the updates of the ingestion are yielded as produced
\* (the k-th update line is the k-th update) after the "chunking" line.
C18_ProgressInOrder ==
    /\ Len(C18_PageLines) = i
    /\ i <= Len(pages)
    /\ \A k \in 1..Len(C18_PageLines) :
            C18_PageLines[k] = PageLine(k, Len(pages), qualify(pages[k]))
    /\ \A p \in 1..Len(out) :
            /\ out[p].kind = "failed" =>
                    /\ p > 1
                    /\ out[p - 1].kind = "page"
                    /\ out[p - 1].item = out[p].item
            /\ out[p].kind \in {"page", "failed"} =>
                    \A r \in 1..(p - 1) : out[r].kind \in {"page", "failed"}
            /\ out[p].kind = "update" =>
                    \E c \in 1..(p - 1) :
                        /\ out[c].kind = "chunking"
                        /\ \A r \in (c + 1)..(p - 1) : out[r].kind = "update"
    /\ Called("save_to_gcloud") => Len(C18_PageLines) = Len(pages)
    /\ \A k \in 1..Len(C18_Updates) : C18_Updates[k] = UpdateLine(k)

C18_Witness ==
    /\ spc = "end"
    /\ Len(pages) = 2
    /\ qualify(pages[1]) # qualify(pages[2])
    /\ Failed = {qualify(pages[1])}
    /\ Len(C18_Updates) = 2
    /\ Len(out) = 8

(***************************************************************************)
(* The caller leaves: a scrape run against a query.                        *)
(***************************************************************************)
\* C19: the step in which the caller leaves a scrape run makes no helper call
\* and yields nothing, and after it the run takes no step: no page is
\* scraped, nothing is persisted, reloaded or ingested, nothing is yielded;
\* whereas a query whose caller left keeps its extraction task: the task is
\* still scheduled, it can run as soon as the response has ended, and the
\* steps it has taken lead to the commit of the entry of the query.
C19_DisconnectAsymmetry ==
    /\ [][spc' = "aborted" =>
            /\ calls' = calls
            /\ out' = out
            /\ text_dict' = text_dict
            /\ df' = df
            /\ i' = i]_vars
    /\ [][spc = "aborted" => spc' = "aborted"]_vars
    /\ [](\A q \in Queries :
            gen[q] = "cancelled" =>
                /\ q \in scheduled
                /\ qpc[q] = "finished" => ENABLED ExtractUrls(q)
                /\ qpc[q] = "locked" => ENABLED Commit(q)
                /\ qpc[q] = "committed" => qid[q] \in DOMAIN storage)

\* the caller of the scrape left before the persist, the caller of the query
\* left too, and the entry of the query is in the store
C19_Witness ==
    /\ spc = "aborted"
    /\ Len(pages) = 1
    /\ Len(Attempts) = 0
    /\ ~Called("save_to_gcloud")
    /\ \E q \in Queries :
        /\ gen[q] = "cancelled"
        /\ qpc[q] = "committed"
        /\ qid[q] \in DOMAIN storage

(***************************************************************************)
(* The scheme of the normalized sitemap URL.                               *)
(***************************************************************************)
\* C20: the normalized URL computed by either endpoint begins with
\* "https://" and references sitemap.xml, and when the website reference
\* does not begin with "https://" the normalized URL begins with "https://"
\* followed by the reference.
C20_SchemePrefixed ==
    \A r \in {sitemapUrl, scrapeUrl} \ {<<>>} :
        /\ startswith(r, HTTPS)
        /\ contains(r, SITEMAP_XML)
        /\ ~startswith(website, HTTPS) => startswith(r, HTTPS \o website)

(***************************************************************************)
(* The order of the stream and the commit, and the frame of the store.     *)
(***************************************************************************)
\* C21: while the generator of a query is still running, that is, while its
\* tokens are still being forwarded, the store holds no entry for the
\* identifier of the query and its extraction task has not started; a lookup
\* of that identifier which returns meanwhile misses: it finds nothing
\* committed and answers with no URL.
C21_CommitAfterStream ==
    /\ [](\A q \in Queries :
            gen[q] = "running" =>
                /\ qpc[q] = "streaming"
                /\ qid[q] \notin DOMAIN storage
                /\ lock # <<"extraction", q>>)
    /\ [][\A q \in Queries : \A l \in Lookups :
            (gen[q] = "running" /\ lid[l] = qid[q]
                /\ lpc[l] = "locked" /\ lpc'[l] = "idle") =>
                    /\ lcase'[l] = "not committed"
                    /\ lresp'[l].urls = <<>>
                    /\ storage' = storage]_vars

\* a lookup of the identifier of a query has missed while the first token
\* of the query was forwarded and its generator is still running
C21_Witness ==
    \E q \in Queries : \E l \in Lookups :
        /\ gen[q] = "running"
        /\ forwarded[q] = <<"a">>
        /\ lid[l] = qid[q]
        /\ lpc[l] = "idle"
        /\ lcase[l] = "not committed"
        /\ lresp[l].urls = <<>>

\* C22: a lookup changes at most the entry of the identifier looked up: a
\* miss leaves the store unchanged and answers with no URL, a hit answers
\* with the whole committed list and removes that entry only; a commit adds
\* the entry of its own identifier only; no other step changes the store.
\* Until the extraction of a query has committed, every lookup of its
\* identifier misses.
C22_LookupFrame ==
    /\ [][\A l \in Lookups :
            (lpc[l] = "locked" /\ lpc'[l] = "idle") =>
                /\ \A id \in DOMAIN storage \ {lid[l]} :
                        id \in DOMAIN storage' /\ storage'[id] = storage[id]
                /\ DOMAIN storage' = DOMAIN storage \ {lid[l]}
                /\ lid[l] \notin DOMAIN storage =>
                        storage' = storage /\ lresp'[l].urls = <<>>
                /\ lid[l] \in DOMAIN storage =>
                        /\ lresp'[l].urls = storage[lid[l]]
                        /\ lcase'[l] = "hit"]_vars
    /\ [][\A q \in Queries :
            (qpc[q] = "locked" /\ qpc'[q] = "committed") =>
                /\ \A id \in DOMAIN storage \ {qid[q]} :
                        id \in DOMAIN storage' /\ storage'[id] = storage[id]
                /\ DOMAIN storage' = DOMAIN storage \cup {qid[q]}
                /\ storage'[qid[q]] = unique[q]]_vars
    /\ [][storage' # storage =>
            \/ \E l \in Lookups : lpc[l] = "locked" /\ lpc'[l] = "idle"
            \/ \E q \in Queries : qpc[q] = "locked" /\ qpc'[q] = "committed"]_vars
    /\ [][\A q \in Queries : \A l \in Lookups :
            (lpc[l] = "locked" /\ lpc'[l] = "idle" /\ lid[l] = qid[q]
                /\ qpc[q] \in {"streaming", "finished", "waiting", "locked"}) =>
                    lcase'[l] = "not committed" /\ lresp'[l].urls = <<>>]_vars

\* a lookup has hit and received both committed URLs, its entry is gone, and
\* the entry committed by the other query is still in the store
C22_Witness ==
    \E l \in Lookups : \E q \in Queries :
        /\ lpc[l] = "idle"
        /\ lcase[l] = "hit"
        /\ lresp[l].urls = <<"u1", "u2">>
        /\ lid[l] \notin DOMAIN storage
        /\ qpc[q] = "committed"
        /\ qid[q] # lid[l]
        /\ qid[q] \in DOMAIN storage

=============================================================================
